---------------------------- MODULE Spec2Model ----------------------------
(***************************************************************************)
(* A model of youtube_get/utils/parser.py: the context scanner             *)
(* (find_object_from_startpoint), the value parser                         *)
(* (parse_for_object_from_startpoint), the anchor locator                  *)
(* (parse_for_object, parse_for_all_objects) and the array segmenter       *)
(* (throttling_array_split); and of youtube_get/modules/channel.py: the    *)
(* pagination of a channel's videos (Channel._paginate, _extract_videos,   *)
(* url_generator).                                                         *)
(*                                                                         *)
(* A text is a sequence of one-character strings.  Python's None is the    *)
(* string "None", which is no character.  Python offsets are 0-based, TLA+ *)
(* sequences 1-based: the character html[i] of the code is html[i + 1]     *)
(* here, and the slice html[a:b] is Slice(html, a, b).                     *)
(***************************************************************************)
EXTENDS Integers, Sequences, FiniteSets, TLC

VARIABLES
    op,           \* the entry point called: "scan", "find_one", "find_all",
                  \* "parse", "segment", "video_urls"
    input,        \* the text the caller passed (parameter html as passed)
    start_point,  \* find_object_from_startpoint: parameter start_point
    html,         \* find_object_from_startpoint: local html (line 69)
    sc,           \* find_object_from_startpoint: i, stack, last_char, curr_char
    preceding_regex, \* parse_for_object / parse_for_all_objects: the anchor
    pos,          \* parse_for_all_objects: where regex.finditer resumes
    result,       \* parse_for_all_objects: the list result
    parse_obj,    \* parse_for_object_from_startpoint: the local full_obj
    curr_substring, \* throttling_array_split: the remainder
    results,      \* throttling_array_split: the list results
    match_end,    \* throttling_array_split: match_end of the function branch
    server,       \* Channel: the pages the site serves
    videos_Ids,   \* Channel._paginate: the id list being yielded
    continuation, \* Channel._paginate: the continuation of the last page
    cursor,       \* Channel.url_generator: ids of the page already yielded
    requests,     \* Channel._paginate: the tokens posted with request.post
    pages,        \* Channel._paginate: the id lists yielded so far
    urls,         \* Channel.url_generator: the URLs yielded so far
    pc,           \* position in the running entry point
    ret,          \* the value returned (a span, a value, or a list of values)
    exc           \* the exception the call raised, NoExc if none

scanVars == <<start_point, html, sc>>
findVars == <<preceding_regex, pos, result>>
parseVars == <<parse_obj>>
segVars == <<curr_substring, results, match_end>>
chanVars == <<server, videos_Ids, continuation, cursor, requests, pages, urls>>
vars == <<op, input, scanVars, findVars, parseVars, segVars, chanVars, pc, ret, exc>>

-----------------------------------------------------------------------------
(* Bounds of the model. *)

\* longest text over the scanner's full alphabet
MaxLen == 4
\* longest text over the alphabet of brackets, quotes, slashes and backslashes
MaxQuoteLen == 5
\* longest text over the bracket-only alphabet (reaches nesting depth 3)
MaxNestLen == 6
\* largest start offset handed to the scanner
MaxStart == 1
\* most video items of a page the server sends
MaxVideos == 1
\* most further pages a channel requests
MaxFetch == 2
\* most tokens after the opener of a text handed to the parser
MaxParseTokens == 4
\* most tokens after the [ of a text handed to the array segmenter
MaxSegTokens == 4
\* most elements of a well-formed array handed to the array segmenter
MaxElems == 3

-----------------------------------------------------------------------------
(* Python values and helpers. *)

None == "None"

Min(a, b) == IF a < b THEN a ELSE b

\* html[a:b] for 0 <= a, b (Python clamps a slice to the string)
Slice(s, a, b) == SubSeq(s, a + 1, Min(b, Len(s)))

\* html[a:]
SliceFrom(s, a) == SubSeq(s, a + 1, Len(s))

Seqs(S, n) == UNION {[1..k -> S] : k \in 0..n}

NoExc == [type |-> "none", msg |-> ""]

\* exceptions.py: class HTMLParseError, raised with these messages
InvalidStart == [type |-> "HTMLParseError", msg |-> "Invalid start point"]
NoMatches == [type |-> "HTMLParseError", msg |-> "No matches for regex"]
CouldNotParse == [type |-> "HTMLParseError", msg |-> "Could not parse object."]
\* ''[0] in Python
IndexError == [type |-> "IndexError", msg |-> "string index out of range"]

-----------------------------------------------------------------------------
(* find_object_from_startpoint *)

\* a variant of StartChars that also takes a double quote as a start
StartCharsWithQuote == {"{", "[", "\""}

\* line 70: html[0] not in ['{', '[']
StartChars == {"{", "["}

\* lines 80-85: the dict context_closers
context_closers == [c \in {"{", "[", "\"", "/"} |->
                      CASE c = "{" -> "}"
                        [] c = "[" -> "]"
                        [] c = "\"" -> "\""
                        [] c = "/" -> "/"]

\* a variant of CloserOf with the closers of { and [ exchanged
CloserOfReversed(ctx) == IF ctx = "{" THEN "]" ELSE IF ctx = "[" THEN "}" ELSE ctx

\* line 96: context_closers[curr_context]
CloserOf(ctx) == context_closers[ctx]

\* line 90: the characters that do not update last_char
Whitespace == {" ", "\n"}

\* a variant of QuotedContexts without the string context
QuotedContextsRegexOnly == {"/"}

\* line 103: the contexts with special handling
QuotedContexts == {"\"", "/"}

\* line 112: the characters after which a slash starts a regular expression
RegexPreceders == {"(", ",", "=", ":", "[", "!", "&", "|", "?", "{", "}", ";"}

\* a variant of Pushes with the test of last_char negated
PushesSwapped(curr, last) == ~(curr = "/" /\ last \in RegexPreceders)

\* line 112: not (curr_char == '/' and last_char not in [...])
Pushes(curr, last) == ~(curr = "/" /\ last \notin RegexPreceders)

\* a variant of Skip that passes the backslash alone
SkipOne(i) == i + 1

\* line 106: i += 2
Skip(i) == i + 2

\* a variant of ScanStart whose stack starts with { whatever the opener is
ScanStartBrace(h) == [i |-> 1, stack |-> <<"{">>, last_char |-> "{", curr_char |-> None]

\* lines 75-78: the locals before the loop
ScanStart(h) == [i |-> 1, stack |-> <<h[1]>>, last_char |-> "{", curr_char |-> None]

\* line 87-89: the loop runs while i < len(html) and the stack is not empty
Scanning(h, s) == s.i < Len(h) /\ Len(s.stack) # 0

\* lines 90-115: one iteration of the loop
ScanStep(h, s) ==
    LET last == IF s.curr_char \notin Whitespace THEN s.curr_char ELSE s.last_char
        curr == h[s.i + 1]
        curr_context == s.stack[Len(s.stack)]
        t == [s EXCEPT !.last_char = last, !.curr_char = curr]
    IN  IF curr = CloserOf(curr_context)
        THEN [t EXCEPT !.stack = SubSeq(s.stack, 1, Len(s.stack) - 1), !.i = s.i + 1]
        ELSE IF curr_context \in QuotedContexts
        THEN IF curr = "\\"
             THEN [t EXCEPT !.i = Skip(s.i)]
             ELSE [t EXCEPT !.i = s.i + 1]
        ELSE IF curr \in DOMAIN context_closers /\ Pushes(curr, last)
        THEN [t EXCEPT !.stack = Append(s.stack, curr), !.i = s.i + 1]
        ELSE [t EXCEPT !.i = s.i + 1]

\* a variant of FullObj that ends the slice one character early
FullObjShort(h, s) == Slice(h, 0, s.i - 1)

\* line 117: full_obj = html[:i]
FullObj(h, s) == Slice(h, 0, s.i)


\* lines 87-118: the loop run to its end, then the return value
RECURSIVE ScanLoop(_, _)
ScanLoop(h, s) == IF Scanning(h, s) THEN ScanLoop(h, ScanStep(h, s)) ELSE FullObj(h, s)

\* lines 69-118: the whole call, as the exception raised and the span returned
find_object_from_startpoint(h0, start) ==
    LET h == SliceFrom(h0, start)
    IN  IF Len(h) = 0 THEN [exc |-> IndexError, value |-> <<>>]
        ELSE IF h[1] \notin StartChars THEN [exc |-> InvalidStart, value |-> <<>>]
        ELSE [exc |-> NoExc, value |-> ScanLoop(h, ScanStart(h))]

-----------------------------------------------------------------------------
(* parse_for_object_from_startpoint.  json.loads and ast.literal_eval are  *)
(* modelled on texts over the characters { } [ ] : , 1 k a " ' (and any    *)
(* other character, which neither accepts outside a string): numbers are   *)
(* runs of the digit 1, names are runs of k, a and 1 that start with a     *)
(* letter, strings hold no backslash and no quote of their own kind, and   *)
(* no three quotes stand in a row.  A value is written as its JSON text    *)
(* (a set as its display), which names one value tree for the displays     *)
(* without repeated members.                                               *)

\* the least member of a set of offsets
SetMin(S) == CHOOSE x \in S : \A y \in S : x <= y

\* the end of the run of digits that starts at s[p]
RECURSIVE NumberEnd(_, _)
NumberEnd(s, p) == IF p <= Len(s) /\ s[p] = "1" THEN NumberEnd(s, p + 1) ELSE p

Quotes == {"\"", "'"}

\* the position after the string literal that starts at s[p] with one of
\* the given quotes, 0 if there is none
StringEnd(s, p, quotes) ==
    IF p <= Len(s) /\ s[p] \in quotes /\ \E q \in (p + 1)..Len(s) : s[q] = s[p]
    THEN SetMin({q \in (p + 1)..Len(s) : s[q] = s[p]}) + 1
    ELSE 0

\* json.loads: the position after the JSON value that starts at s[p], 0 if
\* there is none
RECURSIVE ValueEnd(_, _)
RECURSIVE ElementsEnd(_, _)
RECURSIVE MembersEnd(_, _)
ValueEnd(s, p) ==
    IF p > Len(s) THEN 0
    ELSE IF s[p] = "1" THEN NumberEnd(s, p)
    ELSE IF s[p] = "\"" THEN StringEnd(s, p, {"\""})
    ELSE IF s[p] = "["
    THEN IF p + 1 <= Len(s) /\ s[p + 1] = "]" THEN p + 2
         ELSE ElementsEnd(s, p + 1)
    ELSE IF s[p] = "{"
    THEN IF p + 1 <= Len(s) /\ s[p + 1] = "}" THEN p + 2
         ELSE MembersEnd(s, p + 1)
    ELSE 0

ElementsEnd(s, p) ==
    LET q == ValueEnd(s, p)
    IN  IF q = 0 \/ q > Len(s) THEN 0
        ELSE IF s[q] = "]" THEN q + 1
        ELSE IF s[q] = "," THEN ElementsEnd(s, q + 1)
        ELSE 0

MembersEnd(s, p) ==
    LET k == StringEnd(s, p, {"\""})
    IN  IF k = 0 \/ k > Len(s) \/ s[k] # ":" THEN 0
        ELSE LET q == ValueEnd(s, k + 1)
             IN  IF q = 0 \/ q > Len(s) THEN 0
                 ELSE IF s[q] = "}" THEN q + 1
                 ELSE IF s[q] = "," THEN MembersEnd(s, q + 1)
                 ELSE 0

\* the outcomes of ast.literal_eval
NoErr == "none"
FirstErr(a, b) == IF a # NoErr THEN a ELSE b
NotAnExpression == [end |-> 0, err |-> NoErr, hashable |-> FALSE]

\* the letters of a name
NameStart == {"k", "a"}

RECURSIVE NameEnd(_, _)
NameEnd(s, p) ==
    IF p <= Len(s) /\ s[p] \in NameStart \cup {"1"} THEN NameEnd(s, p + 1) ELSE p

\* adjacent string literals make one string
RECURSIVE StringsEnd(_, _)
StringsEnd(s, p) ==
    LET q == StringEnd(s, p, Quotes)
    IN  IF q = 0 THEN 0
        ELSE IF q <= Len(s) /\ s[q] \in Quotes THEN StringsEnd(s, q)
        ELSE q

\* ast.literal_eval on the expression that starts at s[p]: the position
\* after it (0 if Python's parser finds no expression there), the first
\* error its conversion raises, in the order _convert visits the nodes, and
\* whether the value can be a set member or a dict key
RECURSIVE Convert(_, _)
RECURSIVE ConvertList(_, _, _)
RECURSIVE ConvertSet(_, _, _)
RECURSIVE ConvertDict(_, _, _)
Convert(s, p) ==
    IF p > Len(s) THEN NotAnExpression
    ELSE IF s[p] = "1" THEN [end |-> NumberEnd(s, p), err |-> NoErr, hashable |-> TRUE]
    ELSE IF s[p] \in Quotes THEN [end |-> StringsEnd(s, p), err |-> NoErr, hashable |-> TRUE]
    ELSE IF s[p] \in NameStart
    THEN [end |-> NameEnd(s, p), err |-> "ValueError", hashable |-> TRUE]
    ELSE IF s[p] = "["
    THEN IF p + 1 <= Len(s) /\ s[p + 1] = "]"
         THEN [end |-> p + 2, err |-> NoErr, hashable |-> FALSE]
         ELSE ConvertList(s, p + 1, NoErr)
    ELSE IF s[p] = "{"
    THEN IF p + 1 <= Len(s) /\ s[p + 1] = "}"
         THEN [end |-> p + 2, err |-> NoErr, hashable |-> FALSE]
         ELSE LET first == Convert(s, p + 1)
              IN  IF first.end = 0 \/ first.end > Len(s) THEN NotAnExpression
                  ELSE IF s[first.end] = ":" THEN ConvertDict(s, p + 1, NoErr)
                  ELSE ConvertSet(s, p + 1, NoErr)
    ELSE NotAnExpression

ConvertList(s, p, err) ==
    LET e == Convert(s, p)
        err2 == FirstErr(err, e.err)
    IN  IF e.end = 0 \/ e.end > Len(s) THEN NotAnExpression
        ELSE IF s[e.end] = "]" THEN [end |-> e.end + 1, err |-> err2, hashable |-> FALSE]
        ELSE IF s[e.end] = ","
        THEN IF e.end + 1 <= Len(s) /\ s[e.end + 1] = "]"
             THEN [end |-> e.end + 2, err |-> err2, hashable |-> FALSE]
             ELSE ConvertList(s, e.end + 1, err2)
        ELSE NotAnExpression

ConvertSet(s, p, err) ==
    LET e == Convert(s, p)
        err2 == FirstErr(err, FirstErr(e.err, IF e.hashable THEN NoErr ELSE "TypeError"))
    IN  IF e.end = 0 \/ e.end > Len(s) THEN NotAnExpression
        ELSE IF s[e.end] = "}" THEN [end |-> e.end + 1, err |-> err2, hashable |-> FALSE]
        ELSE IF s[e.end] = ","
        THEN IF e.end + 1 <= Len(s) /\ s[e.end + 1] = "}"
             THEN [end |-> e.end + 2, err |-> err2, hashable |-> FALSE]
             ELSE ConvertSet(s, e.end + 1, err2)
        ELSE NotAnExpression

ConvertDict(s, p, err) ==
    LET k == Convert(s, p)
    IN  IF k.end = 0 \/ k.end > Len(s) \/ s[k.end] # ":" THEN NotAnExpression
        ELSE LET v == Convert(s, k.end + 1)
                 err2 == FirstErr(err, FirstErr(k.err, FirstErr(v.err,
                             IF k.hashable THEN NoErr ELSE "TypeError")))
             IN  IF v.end = 0 \/ v.end > Len(s) THEN NotAnExpression
                 ELSE IF s[v.end] = "}"
                 THEN [end |-> v.end + 1, err |-> err2, hashable |-> FALSE]
                 ELSE IF s[v.end] = ","
                 THEN IF v.end + 1 <= Len(s) /\ s[v.end + 1] = "}"
                      THEN [end |-> v.end + 2, err |-> err2, hashable |-> FALSE]
                      ELSE ConvertDict(s, v.end + 1, err2)
                 ELSE NotAnExpression

\* line 136: what ast.literal_eval(full_obj) does: "none" when it returns a
\* value, else the error it raises
LiteralEval(s) ==
    LET e == Convert(s, 1)
    IN  IF e.end # Len(s) + 1 THEN "SyntaxError" ELSE e.err

\* the value tree of an accepted text: the text without its trailing
\* commas, its strings double-quoted and adjacent strings made one;
\* q is the quote of the string p is in, None outside a string
RECURSIVE Canonical(_, _, _)
Canonical(s, p, q) ==
    IF p > Len(s) THEN <<>>
    ELSE IF q = None
    THEN IF s[p] \in Quotes THEN <<"\"">> \o Canonical(s, p + 1, s[p])
         ELSE IF s[p] = "," /\ p + 1 <= Len(s) /\ s[p + 1] \in {"]", "}"}
         THEN Canonical(s, p + 1, None)
         ELSE <<s[p]>> \o Canonical(s, p + 1, None)
    ELSE IF s[p] = q
    THEN IF p + 1 <= Len(s) /\ s[p + 1] \in Quotes THEN Canonical(s, p + 2, s[p + 1])
         ELSE <<"\"">> \o Canonical(s, p + 1, None)
    ELSE <<s[p]>> \o Canonical(s, p + 1, q)

ValueOf(s) == Canonical(s, 1, None)

\* line 133: json.loads(full_obj) does not raise JSONDecodeError
JsonAccepts(s) == ValueEnd(s, 1) = Len(s) + 1

\* line 136: ast.literal_eval(full_obj) returns a value
LiteralEvalAccepts(s) == LiteralEval(s) = NoErr

\* a set member or a dict key that is a list, a dict or a set
UnhashableError == [type |-> "TypeError", msg |-> "unhashable type"]

\* lines 135-138: the fallback, its error handler included
FallbackParse(full_obj) ==
    IF LiteralEvalAccepts(full_obj) THEN [exc |-> NoExc, value |-> ValueOf(full_obj)]
    ELSE IF LiteralEval(full_obj) \in {"ValueError", "SyntaxError"}
    THEN [exc |-> CouldNotParse, value |-> <<>>]
    ELSE [exc |-> UnhashableError, value |-> <<>>]

\* lines 131-138
parse_for_object_from_startpoint(h, start) ==
    LET found == find_object_from_startpoint(h, start)
        full_obj == found.value
    IN  IF found.exc # NoExc THEN found
        ELSE IF JsonAccepts(full_obj) THEN [exc |-> NoExc, value |-> ValueOf(full_obj)]
        ELSE FallbackParse(full_obj)

-----------------------------------------------------------------------------
(* parse_for_object and parse_for_all_objects.  The anchor pattern is a    *)
(* regular expression without metacharacters: a literal, non-empty text.   *)

\* the pattern matches at offset k (0-based) of text
MatchesAt(text, pattern, k) ==
    /\ k + Len(pattern) <= Len(text)
    /\ SubSeq(text, k + 1, k + Len(pattern)) = pattern

\* the start offsets of the matches at or after offset from
MatchStarts(text, pattern, from) ==
    {k \in from..Len(text) : MatchesAt(text, pattern, k)}

\* regex.search / the next item of regex.finditer: the end offset of the
\* leftmost match at or after offset from, -1 if there is none
MatchEnd(text, pattern, from) ==
    IF MatchStarts(text, pattern, from) = {} THEN -1
    ELSE SetMin(MatchStarts(text, pattern, from)) + Len(pattern)

\* None.end() in Python
AttributeError == [type |-> "AttributeError", msg |-> "NoneType has no attribute end"]

\* a variant of parse_for_object without the check of lines 52-53
ParseForObjectUnchecked(h, pattern) ==
    IF MatchEnd(h, pattern, 0) = -1 THEN [exc |-> AttributeError, value |-> <<>>]
    ELSE parse_for_object_from_startpoint(h, MatchEnd(h, pattern, 0))

\* lines 50-56
parse_for_object(h, pattern) ==
    IF MatchEnd(h, pattern, 0) = -1 THEN [exc |-> NoMatches, value |-> <<>>]
    ELSE parse_for_object_from_startpoint(h, MatchEnd(h, pattern, 0))

-----------------------------------------------------------------------------
(* throttling_array_split *)

\* the keyword of line 159
FunctionToken == <<"f", "u", "n", "c", "t", "i", "o", "n">>

\* line 159: curr_substring.startswith('function')
StartsWithFunction(sub) ==
    Len(sub) >= Len(FunctionToken) /\ SubSeq(sub, 1, Len(FunctionToken)) = FunctionToken

\* line 156: where function\([^)]*\) can match: "function(" at offset k and
\* a ")" somewhere after it
FuncMatchStarts(sub) ==
    {k \in 0..Len(sub) :
        /\ MatchesAt(sub, FunctionToken \o <<"(">>, k)
        /\ \E j \in (k + 10)..Len(sub) : sub[j] = ")"}

\* line 161-162: func_regex.search(curr_substring).span(), None if no match;
\* the match is the leftmost, and [^)]* ends at the first ")"
FuncSearch(sub) ==
    IF FuncMatchStarts(sub) = {} THEN None
    ELSE LET k == SetMin(FuncMatchStarts(sub))
         IN  <<k, SetMin({j \in (k + 10)..Len(sub) : sub[j] = ")"})>>

\* a variant of CommaSearch that finds the last comma
CommaSearchLast(sub) ==
    IF \A j \in 1..Len(sub) : sub[j] # "," THEN None
    ELSE LET j == CHOOSE x \in 1..Len(sub) :
                      sub[x] = "," /\ \A y \in (x + 1)..Len(sub) : sub[y] # ","
         IN  <<j - 1, j>>

\* line 155, 169: comma_regex.search(curr_substring).span(), None if no match
CommaSearch(sub) ==
    IF \A j \in 1..Len(sub) : sub[j] # "," THEN None
    ELSE LET j == SetMin({x \in 1..Len(sub) : sub[x] = ","})
         IN  <<j - 1, j>>

\* None.span() in Python
NoSpanError == [type |-> "AttributeError", msg |-> "NoneType has no attribute span"]

\* a variant of FullFunctionDef that leaves the function body out
FullFunctionDefHead(sub, mend, function_text) == Slice(sub, 0, mend)

\* line 165: curr_substring[:match_end + len(function_text)]
FullFunctionDef(sub, mend, function_text) == Slice(sub, 0, mend + Len(function_text))

\* a variant of AfterFunction that keeps the character after the element
AfterFunctionKeepsNext(sub, def) == SubSeq(sub, Len(def) + 1, Len(sub))

\* line 167: curr_substring[len(full_function_def) + 1:]
AfterFunction(sub, def) == SubSeq(sub, Len(def) + 2, Len(sub))

\* a variant of CommaSpan that keeps the last character of the remainder
CommaSpanWhole(sub) ==
    IF CommaSearch(sub) # None THEN CommaSearch(sub) ELSE <<Len(sub), Len(sub) + 1>>

\* lines 169-176: match_start and match_end of the comma branch
CommaSpan(sub) ==
    IF CommaSearch(sub) # None THEN CommaSearch(sub) ELSE <<Len(sub) - 1, Len(sub)>>

\* a variant of AfterComma that resumes at the comma
AfterCommaKeepsComma(sub, span) == SubSeq(sub, span[1] + 1, Len(sub))

\* line 180: curr_substring[match_end:]
AfterComma(sub, span) == SubSeq(sub, span[2] + 1, Len(sub))

-----------------------------------------------------------------------------
(* The call scan(input, start_point), one action per step of the code. *)

ScanAlphabet == {"{", "}", "[", "]", "\"", "/", "\\", " ", "a", "="}
QuoteAlphabet == {"{", "}", "[", "]", "\"", "/", "\\"}
NestAlphabet == {"{", "}", "[", "]", "a"}

ScanTexts ==
    Seqs(ScanAlphabet, MaxLen) \cup Seqs(QuoteAlphabet, MaxQuoteLen)
        \cup Seqs(NestAlphabet, MaxNestLen)

IdleScan == [i |-> 0, stack |-> <<>>, last_char |-> None, curr_char |-> None]

\* the variables of the entry points that are not called
IdleFind == preceding_regex = <<>> /\ pos = 0 /\ result = <<>>
IdleParse == parse_obj = <<>>
IdleSegment == curr_substring = <<>> /\ results = <<>> /\ match_end = 0
IdleChannel ==
    /\ server = <<>>
    /\ videos_Ids = <<>>
    /\ continuation = None
    /\ cursor = 0
    /\ requests = <<>>
    /\ pages = <<>>
    /\ urls = <<>>

InitScan ==
    /\ op = "scan"
    /\ input \in ScanTexts
    /\ start_point \in 0..Min(Len(input), MaxStart)
    /\ html = input
    /\ sc = IdleScan
    /\ preceding_regex = <<>>
    /\ pos = 0
    /\ result = <<>>
    /\ IdleParse /\ IdleSegment /\ IdleChannel
    /\ pc = "call"
    /\ ret = <<>>
    /\ exc = NoExc

\* lines 69-78: slice, check the first character, set up the locals
ScanEnter ==
    /\ op = "scan"
    /\ pc = "call"
    /\ html' = SliceFrom(html, start_point)
    /\ IF Len(html') = 0
       THEN /\ pc' = "raised"
            /\ exc' = IndexError
            /\ sc' = sc
       ELSE IF html'[1] \notin StartChars
       THEN /\ pc' = "raised"
            /\ exc' = InvalidStart
            /\ sc' = sc
       ELSE /\ pc' = "loop"
            /\ exc' = exc
            /\ sc' = ScanStart(html')
    /\ UNCHANGED <<parseVars, segVars, chanVars>>
    /\ UNCHANGED <<op, input, start_point, findVars, ret>>

\* lines 87-115: one iteration of the while loop
ScanIter ==
    /\ op = "scan"
    /\ pc = "loop"
    /\ Scanning(html, sc)
    /\ sc' = ScanStep(html, sc)
    /\ UNCHANGED <<parseVars, segVars, chanVars>>
    /\ UNCHANGED <<op, input, start_point, html, findVars, pc, ret, exc>>

\* lines 117-118: the loop has ended; return html[:i]
ScanReturn ==
    /\ op = "scan"
    /\ pc = "loop"
    /\ ~Scanning(html, sc)
    /\ ret' = FullObj(html, sc)
    /\ pc' = "returned"
    /\ UNCHANGED <<parseVars, segVars, chanVars>>
    /\ UNCHANGED <<op, input, scanVars, findVars, exc>>

NextScan == ScanEnter \/ ScanIter \/ ScanReturn

SpecScan == InitScan /\ [][NextScan]_vars

-----------------------------------------------------------------------------
(* The calls find_one(input, preceding_regex) and                          *)
(* find_all(input, preceding_regex).                                       *)

\* longest text handed to the anchor locator
MaxFindLen == 5

FindAlphabet == {"[", "]", "1", ",", "M"}
FindTexts == Seqs(FindAlphabet, MaxFindLen)
Anchors == {<<"M">>, <<"M", "M">>}

InitFind ==
    /\ op \in {"find_one", "find_all"}
    /\ input \in FindTexts
    /\ preceding_regex \in Anchors
    /\ pos = 0
    /\ result = <<>>
    /\ start_point = 0
    /\ html = input
    /\ sc = IdleScan
    /\ IdleParse /\ IdleSegment /\ IdleChannel
    /\ pc = "call"
    /\ ret = <<>>
    /\ exc = NoExc

\* parse_for_object, lines 50-56
FindOne ==
    /\ op = "find_one"
    /\ pc = "call"
    /\ LET r == parse_for_object(input, preceding_regex)
       IN  /\ exc' = r.exc
           /\ ret' = r.value
           /\ pc' = IF r.exc = NoExc THEN "returned" ELSE "raised"
    /\ UNCHANGED <<parseVars, segVars, chanVars>>
    /\ UNCHANGED <<op, input, scanVars, findVars>>

\* parse_for_all_objects, lines 21-32: one match of the iterator
FindAllMatch ==
    /\ op = "find_all"
    /\ pc = "call"
    /\ MatchEnd(input, preceding_regex, pos) # -1
    /\ LET start_index == MatchEnd(input, preceding_regex, pos)
           r == parse_for_object_from_startpoint(input, start_index)
       IN  /\ pos' = start_index
           /\ IF r.exc = NoExc
              THEN /\ result' = Append(result, r.value)
                   /\ UNCHANGED <<pc, exc>>
              ELSE IF r.exc.type = "HTMLParseError"
              THEN UNCHANGED <<result, pc, exc>>
              ELSE /\ pc' = "raised"
                   /\ exc' = r.exc
                   /\ result' = result
    /\ UNCHANGED <<parseVars, segVars, chanVars>>
    /\ UNCHANGED <<op, input, scanVars, preceding_regex, ret>>

\* parse_for_all_objects, lines 34-37: the iterator is exhausted
FindAllEnd ==
    /\ op = "find_all"
    /\ pc = "call"
    /\ MatchEnd(input, preceding_regex, pos) = -1
    /\ IF Len(result) = 0
       THEN /\ pc' = "raised"
            /\ exc' = NoMatches
            /\ ret' = ret
       ELSE /\ pc' = "returned"
            /\ ret' = result
            /\ exc' = exc
    /\ UNCHANGED <<parseVars, segVars, chanVars>>
    /\ UNCHANGED <<op, input, scanVars, findVars>>

NextFind == FindOne \/ FindAllMatch \/ FindAllEnd

SpecFind == InitFind /\ [][NextFind]_vars

-----------------------------------------------------------------------------
(* The call segment(input): throttling_array_split, one action per         *)
(* iteration of its loop and per iteration of the scan it calls.           *)

\* a text made of the texts of ts, in order
RECURSIVE Flatten(_)
Flatten(ts) == IF ts = <<>> THEN <<>> ELSE Head(ts) \o Flatten(Tail(ts))

\* what follows the [ of an arbitrary input: a few tokens
SegTokens ==
    {FunctionToken, FunctionToken \o <<"(", ")">>,
     <<"{">>, <<"}">>, <<",">>, <<"1">>, <<"]">>}

\* the elements of a well-formed array: primitives without a comma, and
\* function literals whose parameter list and body may hold commas
Primitives == {<<"1">>, <<"e">>}
ParameterLists == {<<>>, <<"e", ",", "e">>}
Bodies == {<<>>, <<"e", ",", "e">>, <<"{", ",", "}">>}
FunctionLiterals ==
    {FunctionToken \o <<"(">> \o ps \o <<")", "{">> \o b \o <<"}">> :
        ps \in ParameterLists, b \in Bodies}
Elements == Primitives \cup FunctionLiterals

\* [e1,...,en]
RECURSIVE JoinWithCommas(_)
JoinWithCommas(es) ==
    IF es = <<>> THEN <<>>
    ELSE IF Len(es) = 1 THEN es[1]
    ELSE es[1] \o <<",">> \o JoinWithCommas(Tail(es))

ArrayLiteral(es) == <<"[">> \o JoinWithCommas(es) \o <<"]">>

SegTexts ==
    {<<"[">> \o Flatten(ts) : ts \in Seqs(SegTokens, MaxSegTokens)}
        \cup {ArrayLiteral(es) : es \in Seqs(Elements, MaxElems)}

InitSegment ==
    /\ op = "segment"
    /\ input \in SegTexts
    /\ start_point = 0
    /\ html = <<>>
    /\ sc = IdleScan
    /\ IdleFind /\ IdleParse /\ IdleSegment /\ IdleChannel
    /\ pc = "call"
    /\ ret = <<>>
    /\ exc = NoExc

\* lines 152-156: results = [], curr_substring = js_array[1:]
SegStart ==
    /\ op = "segment"
    /\ pc = "call"
    /\ results' = <<>>
    /\ curr_substring' = SliceFrom(input, 1)
    /\ pc' = "seg_loop"
    /\ UNCHANGED <<op, input, scanVars, findVars, parseVars, match_end, chanVars, ret, exc>>

\* lines 159-164 and, in find_object_from_startpoint, lines 69-78: the
\* function branch up to the start of the scan of the function body
SegFunction ==
    /\ op = "segment"
    /\ pc = "seg_loop"
    /\ Len(curr_substring) > 0
    /\ StartsWithFunction(curr_substring)
    /\ IF FuncSearch(curr_substring) = None
       THEN /\ pc' = "raised"
            /\ exc' = NoSpanError
            /\ UNCHANGED <<scanVars, match_end>>
       ELSE /\ match_end' = FuncSearch(curr_substring)[2]
            /\ start_point' = match_end'
            /\ html' = SliceFrom(curr_substring, match_end')
            /\ IF Len(html') = 0
               THEN pc' = "raised" /\ exc' = IndexError /\ sc' = sc
               ELSE IF html'[1] \notin StartChars
               THEN pc' = "raised" /\ exc' = InvalidStart /\ sc' = sc
               ELSE pc' = "seg_scan" /\ exc' = exc /\ sc' = ScanStart(html')
    /\ UNCHANGED <<op, input, findVars, parseVars, curr_substring, results, chanVars, ret>>

\* find_object_from_startpoint, lines 87-115: one iteration of the scan of
\* the function body
SegScanIter ==
    /\ op = "segment"
    /\ pc = "seg_scan"
    /\ Scanning(html, sc)
    /\ sc' = ScanStep(html, sc)
    /\ UNCHANGED <<op, input, start_point, html, findVars, parseVars, segVars, chanVars,
                   pc, ret, exc>>

\* find_object_from_startpoint, lines 117-118, then lines 164-167: the scan
\* returns function_text; the element is appended and the remainder advanced
SegFunctionEnd ==
    /\ op = "segment"
    /\ pc = "seg_scan"
    /\ ~Scanning(html, sc)
    /\ LET function_text == FullObj(html, sc)
           full_function_def == FullFunctionDef(curr_substring, match_end, function_text)
       IN  /\ results' = Append(results, full_function_def)
           /\ curr_substring' = AfterFunction(curr_substring, full_function_def)
    /\ pc' = "seg_loop"
    /\ UNCHANGED <<op, input, scanVars, findVars, parseVars, match_end, chanVars, ret, exc>>

\* lines 168-180: the comma branch
SegComma ==
    /\ op = "segment"
    /\ pc = "seg_loop"
    /\ Len(curr_substring) > 0
    /\ ~StartsWithFunction(curr_substring)
    /\ LET span == CommaSpan(curr_substring)
       IN  /\ results' = Append(results, Slice(curr_substring, 0, span[1]))
           /\ curr_substring' = AfterComma(curr_substring, span)
    /\ UNCHANGED <<op, input, scanVars, findVars, parseVars, match_end, chanVars,
                   pc, ret, exc>>

\* lines 158, 182: the remainder is empty; return results
SegReturn ==
    /\ op = "segment"
    /\ pc = "seg_loop"
    /\ Len(curr_substring) = 0
    /\ ret' = results
    /\ pc' = "returned"
    /\ UNCHANGED <<op, input, scanVars, findVars, parseVars, segVars, chanVars, exc>>

NextSegment ==
    SegStart \/ SegFunction \/ SegScanIter \/ SegFunctionEnd \/ SegComma \/ SegReturn

SpecSegment == InitSegment /\ [][NextSegment]_vars

\* the call runs synchronously: a step that can be taken is taken
FairSpecSegment == SpecSegment /\ WF_vars(NextSegment)

-----------------------------------------------------------------------------
(* The call parse(input, 0): parse_for_object_from_startpoint, one action  *)
(* per stage.                                                              *)

\* what follows the opener of a text handed to the parser: a few tokens
ParseTokens ==
    {<<"{">>, <<"}">>, <<"[">>, <<"]">>, <<":">>, <<"1">>, <<"k">>,
     <<"\"", "a", "\"">>, <<"'", "a", "'">>}

ParseTexts ==
    {<<o>> \o Flatten(ts) : o \in StartChars, ts \in Seqs(ParseTokens, MaxParseTokens)}

InitParse ==
    /\ op = "parse"
    /\ input \in ParseTexts
    /\ start_point = 0
    /\ html = <<>>
    /\ sc = IdleScan
    /\ IdleFind /\ IdleParse /\ IdleSegment /\ IdleChannel
    /\ pc = "call"
    /\ ret = <<>>
    /\ exc = NoExc

\* line 131: full_obj = find_object_from_startpoint(html, start_point)
ParseScan ==
    /\ op = "parse"
    /\ pc = "call"
    /\ LET found == find_object_from_startpoint(input, start_point)
       IN  IF found.exc # NoExc
           THEN pc' = "raised" /\ exc' = found.exc /\ parse_obj' = parse_obj
           ELSE pc' = "json" /\ exc' = exc /\ parse_obj' = found.value
    /\ UNCHANGED <<op, input, scanVars, findVars, segVars, chanVars, ret>>

\* lines 132-134: return json.loads(full_obj), or go on to the fallback
ParseJson ==
    /\ op = "parse"
    /\ pc = "json"
    /\ IF JsonAccepts(parse_obj)
       THEN pc' = "returned" /\ ret' = ValueOf(parse_obj)
       ELSE pc' = "fallback" /\ ret' = ret
    /\ UNCHANGED <<op, input, scanVars, findVars, parseVars, segVars, chanVars, exc>>

\* lines 135-138: return ast.literal_eval(full_obj), or raise
ParseLiteralEval ==
    /\ op = "parse"
    /\ pc = "fallback"
    /\ LET r == FallbackParse(parse_obj)
       IN  IF r.exc = NoExc
           THEN pc' = "returned" /\ ret' = r.value /\ exc' = exc
           ELSE pc' = "raised" /\ ret' = ret /\ exc' = r.exc
    /\ UNCHANGED <<op, input, scanVars, findVars, parseVars, segVars, chanVars>>

NextParse == ParseScan \/ ParseJson \/ ParseLiteralEval

SpecParse == InitParse /\ [][NextParse]_vars

-----------------------------------------------------------------------------
(* Channel._paginate and Channel.url_generator.  A page is what the server *)
(* sent: its layout and the item list found in it.  server is the          *)
(* sequence of the pages sent so far, requests the continuation tokens     *)
(* posted, pages the id lists _paginate yielded and urls the URLs          *)
(* url_generator yielded.                                                  *)

Videos == {"a", "b"}
\* the tokens a continuation item may hold; the empty one is no token to
\* the test of lines 174 and 189
Tokens == {"", "t", "u"}

VideoItem(v) == [kind |-> "video", id |-> v, token |-> None]
ContinuationItem(t) == [kind |-> "continuation", id |-> None, token |-> t]

\* the item lists of a page: videos, then a continuation item or none; and
\* the lists with a continuation item in front of the videos
ItemLists ==
    {[i \in 1..Len(vs) |-> VideoItem(vs[i])] \o tail :
        vs \in Seqs(Videos, MaxVideos),
        tail \in {<<>>} \cup {<<ContinuationItem(t)>> : t \in Tokens}}
    \cup {<<ContinuationItem(t)>> \o [i \in 1..Len(vs) |-> VideoItem(vs[i])] :
        t \in Tokens, vs \in Seqs(Videos, MaxVideos) \ {<<>>}}

\* lines 239-241 and 245-247: the two layouts an item list is looked for in
Layouts == {"tabs", "continuationItems"}

NoLayout == [layout |-> "neither", items |-> <<>>]

\* the pages the server sends: the channel's html holds the tabs layout,
\* the answer to a continuation request the continuationItems layout, or
\* either is something else
ServerPages(l) == {[layout |-> l, items |-> is] : is \in ItemLists} \cup {NoLayout}

\* a variant of Truthy that takes anything for a token
TruthyAlways(c) == TRUE

\* lines 174, 189: if continuation
Truthy(c) == c \notin {None, ""}

\* helpers.uniqueify: the list without the repetitions of an element
RECURSIVE uniqueify(_)
uniqueify(l) ==
    IF l = <<>> THEN <<>>
    ELSE LET front == uniqueify(SubSeq(l, 1, Len(l) - 1))
         IN  IF \E i \in 1..(Len(l) - 1) : l[i] = l[Len(l)] THEN front
             ELSE Append(front, l[Len(l)])

\* lines 242, 247: items_list[:-1]
AllButLast(items_list) == SubSeq(items_list, 1, Len(items_list) - 1)

\* lines 256-262: the token of the last item, None on KeyError / IndexError
ContinuationOf(items_list) ==
    IF items_list # <<>> /\ items_list[Len(items_list)].kind = "continuation"
    THEN items_list[Len(items_list)].token
    ELSE None

\* lines 236-266: the id list and the continuation of a page
_extract_videos(page) ==
    IF \/ page.layout \notin Layouts
       \/ \E i \in 1..Len(AllButLast(page.items)) : AllButLast(page.items)[i].kind # "video"
    THEN <<<<>>, None>>
    ELSE <<uniqueify([i \in 1..Len(AllButLast(page.items)) |-> AllButLast(page.items)[i].id]),
           ContinuationOf(page.items)>>

\* line 273
WatchUrl(videoID) == <<"https://www.youtube.com/watch?v=", videoID>>

InitChannel ==
    /\ op = "channel"
    /\ input = <<>>
    /\ start_point = 0
    /\ html = <<>>
    /\ sc = IdleScan
    /\ IdleFind /\ IdleParse /\ IdleSegment /\ IdleChannel
    /\ pc = "call"
    /\ ret = <<>>
    /\ exc = NoExc

\* lines 165-168: the first page is extracted from the channel's html and
\* its id list yielded
ChanFirstPage ==
    /\ op = "channel"
    /\ pc = "call"
    /\ \E page \in ServerPages("tabs") :
          /\ server' = <<page>>
          /\ videos_Ids' = _extract_videos(page)[1]
          /\ continuation' = _extract_videos(page)[2]
    /\ pages' = Append(pages, videos_Ids')
    /\ cursor' = 0
    /\ pc' = "page"
    /\ UNCHANGED <<op, input, scanVars, findVars, parseVars, segVars, requests, urls, ret, exc>>

\* lines 271-273: url_generator yields the URL of the next id of the page
ChanYieldUrl ==
    /\ op = "channel"
    /\ pc = "page"
    /\ cursor < Len(videos_Ids)
    /\ urls' = Append(urls, WatchUrl(videos_Ids[cursor + 1]))
    /\ cursor' = cursor + 1
    /\ UNCHANGED <<op, input, scanVars, findVars, parseVars, segVars, server, videos_Ids,
                   continuation, requests, pages, pc, ret, exc>>

\* lines 174-175 (189-190) and 179-188: the page is used up and it had a
\* continuation; the next page is requested with it, extracted and yielded
ChanNextPage ==
    /\ op = "channel"
    /\ pc = "page"
    /\ cursor = Len(videos_Ids)
    /\ Truthy(continuation)
    /\ Len(requests) < MaxFetch
    /\ requests' = Append(requests, continuation)
    /\ \E page \in ServerPages("continuationItems") :
          /\ server' = Append(server, page)
          /\ videos_Ids' = _extract_videos(page)[1]
          /\ continuation' = _extract_videos(page)[2]
    /\ pages' = Append(pages, videos_Ids')
    /\ cursor' = 0
    /\ UNCHANGED <<op, input, scanVars, findVars, parseVars, segVars, urls, pc, ret, exc>>

\* lines 176-177 (191-192) and 179: the page is used up and it had no
\* continuation; the generators are exhausted
ChanReturn ==
    /\ op = "channel"
    /\ pc = "page"
    /\ cursor = Len(videos_Ids)
    /\ ~Truthy(continuation)
    /\ ret' = urls
    /\ pc' = "returned"
    /\ UNCHANGED <<op, input, scanVars, findVars, parseVars, segVars, chanVars, exc>>

NextChannel == ChanFirstPage \/ ChanYieldUrl \/ ChanNextPage \/ ChanReturn

SpecChannel == InitChannel /\ [][NextChannel]_vars

Init == InitScan \/ InitFind \/ InitSegment \/ InitParse \/ InitChannel

Next == NextScan \/ NextFind \/ NextSegment \/ NextParse \/ NextChannel

Spec == Init /\ [][Next]_vars

-----------------------------------------------------------------------------
(* Properties of find_object_from_startpoint, checked under SpecScan. *)

Top(st) == st[Len(st)]

\* the scanner is about to examine html[i] (the loop's next iteration)
AtChar == op = "scan" /\ pc = "loop" /\ Scanning(html, sc)

\* the character the next iteration examines
NextChar == html[sc.i + 1]

\* the brackets of s, in order
Brackets(s) == SelectSeq(s, LAMBDA c : c \in {"{", "}", "[", "]"})

\* b, a sequence of brackets, is properly nested: deleting adjacent matching
\* pairs again and again leaves nothing
RECURSIVE WellMatched(_)
WellMatched(b) ==
    IF b = <<>> THEN TRUE
    ELSE LET P == {j \in 1..(Len(b) - 1) :
                     <<b[j], b[j + 1]>> \in {<<"[", "]">>, <<"{", "}">>}}
         IN  IF P = {} THEN FALSE
             ELSE LET j == CHOOSE x \in P : TRUE
                  IN  WellMatched(SubSeq(b, 1, j - 1) \o SubSeq(b, j + 2, Len(b)))

\* h[1..k] is the minimal balanced prefix of h and holds no quote or slash
MinimalBalanced(h, k) ==
    /\ k \in 2..Len(h)
    /\ h[1] \in {"{", "["}
    /\ \A j \in 1..k : h[j] \notin {"\"", "/"}
    /\ WellMatched(Brackets(SubSeq(h, 1, k)))
    /\ \A j \in 1..(k - 1) : ~WellMatched(Brackets(SubSeq(h, 1, j)))

\* the number of backslashes that immediately precede h[p], counted down to
\* position low
RECURSIVE BackslashRun(_, _, _)
BackslashRun(h, p, low) ==
    IF p - 1 >= low /\ h[p - 1] = "\\" THEN 1 + BackslashRun(h, p - 1, low) ELSE 0

\* h[p] is the delimiter of the string or regex that opens at h[o], and no
\* backslash escapes it: the run of backslashes before it is of even length
UnescapedDelimiter(h, o, p) ==
    /\ p \in (o + 1)..Len(h)
    /\ h[p] = h[o]
    /\ BackslashRun(h, p, o + 1) % 2 = 0

\* p is where the string or regex that opens at h[o] ends
ContextEndsAt(h, o, p) ==
    /\ UnescapedDelimiter(h, o, p)
    /\ \A q \in (o + 1)..(p - 1) : ~UnescapedDelimiter(h, o, q)

\* h opens a string or a regex at h[o], inside nothing but object and array
\* contexts: a string right after the opener, or a string or regex right
\* after a second { or [
OpensQuoted(h, o) ==
    \/ o = 2 /\ Len(h) >= 2 /\ h[1] \in {"{", "["} /\ h[2] = "\""
    \/ /\ o = 3 /\ Len(h) >= 3
       /\ h[1] \in {"{", "["} /\ h[2] \in {"{", "["} /\ h[3] \in {"\"", "/"}

\* C5: scan raises InvalidStart and returns no span whenever the character
\* at the start offset is not { or [.
C5_InvalidStart ==
    (/\ op = "scan"
     /\ pc # "call"
     /\ start_point < Len(input)
     /\ input[start_point + 1] \notin {"{", "["})
    => (pc = "raised" /\ exc = InvalidStart /\ ret = <<>>)

C5_Witness ==
    /\ op = "scan"
    /\ pc = "raised"
    /\ exc = InvalidStart
    /\ start_point = 1
    /\ input[1] = "["
    /\ input[2] = "a"

C7_MinimalBalancedPrefix ==
    (op = "scan" /\ pc = "returned")
    => \A k \in 2..Len(html) :
          MinimalBalanced(html, k) => ret = SubSeq(html, 1, k)

C7_Witness ==
    /\ op = "scan"
    /\ pc = "returned"
    /\ ret = <<"[", "{", "[", "]", "}", "]">>

\* C8: inside a double-quoted string the characters { } [ ] / neither push
\* nor pop a context, and a string value that holds them leaves the span
\* ending at the closer of the initial opener.
C8_StringStep ==
    (AtChar /\ Top(sc.stack) = "\"" /\ NextChar \in {"{", "}", "[", "]", "/"})
    => sc'.stack = sc.stack

C8_StringSpan ==
    (op = "scan" /\ pc = "returned")
    => \A p \in 3..(Len(html) - 1) :
          (/\ OpensQuoted(html, 2)
           /\ ContextEndsAt(html, 2, p)
           /\ \A q \in 3..(p - 1) : html[q] # "\\"
           /\ html[p + 1] = context_closers[html[1]])
          => ret = SubSeq(html, 1, p + 1)

\* C8, both parts: every step inside a string leaves the stack alone, and
\* the span of an opener, a string and the closer ends at that closer.
C8_StringContextIsOpaque == [][C8_StringStep]_vars /\ []C8_StringSpan

C8_Witness ==
    /\ op = "scan"
    /\ pc = "returned"
    /\ ret = <<"{", "\"", "}", "\"", "}">>

\* C9: inside a string or regex context a backslash makes scan skip the
\* backslash and the one character after it; a delimiter (" of a string, / of
\* a regex) behind an odd run of backslashes does not close the context, one
\* behind an even run does.
C9_BackslashStep ==
    (AtChar /\ Top(sc.stack) \in {"\"", "/"} /\ NextChar = "\\")
    => (sc'.i = sc.i + 2 /\ sc'.stack = sc.stack)

C9_ContextCloses ==
    (op = "scan" /\ pc \in {"loop", "returned"})
    => \A o \in 2..3 :
          OpensQuoted(html, o)
          => /\ \A p \in (o + 1)..Len(html) :
                  ContextEndsAt(html, o, p)
                  => /\ sc.i = p => sc.stack = SubSeq(html, 1, o - 1)
                     /\ (sc.i >= o /\ sc.i < p) => sc.stack = SubSeq(html, 1, o)
             /\ ((\A p \in (o + 1)..Len(html) : ~ContextEndsAt(html, o, p))
                    /\ sc.i >= o)
                  => sc.stack = SubSeq(html, 1, o)

\* C9, both parts: a backslash in a string or regex skips two characters,
\* and the context closes at its first delimiter behind an even run of them.
C9_BackslashEscapes == [][C9_BackslashStep]_vars /\ []C9_ContextCloses

\* a string closed by a quote that follows an escaped backslash
C9_Witness ==
    /\ op = "scan"
    /\ pc = "returned"
    /\ html = <<"[", "\"", "\\", "\\", "\"">>
    /\ sc.stack = <<"[">>

\* C10 as stated: outside string and regex contexts scan pushes every {, [
\* and ", and pushes a / except when last_char is one of ( , = : [ ! & | ? { } ;
\* or undefined.
C10_SlashStepAsStated ==
    (AtChar /\ Top(sc.stack) \notin {"\"", "/"} /\ NextChar # CloserOf(Top(sc.stack)))
    => /\ NextChar \in {"{", "[", "\""} => sc'.stack = Append(sc.stack, NextChar)
       /\ NextChar = "/" =>
            IF sc'.last_char \in
                 {"(", ",", "=", ":", "[", "!", "&", "|", "?", "{", "}", ";", None}
            THEN sc'.stack = sc.stack
            ELSE sc'.stack = Append(sc.stack, "/")

\* C10 as stated, at every step of the scan.
C10_SlashPushedUnlessPreceder == [][C10_SlashStepAsStated]_vars

\* C10 amended: outside string and regex contexts scan pushes every {, [
\* and ", and pushes a / as a regex context exactly when last_char is one of
\* ( , = : [ ! & | ? { } ; -- after any other last_char, or an undefined one,
\* the / is a plain token and is not pushed.
C10_SlashStep ==
    (AtChar /\ Top(sc.stack) \notin {"\"", "/"} /\ NextChar # CloserOf(Top(sc.stack)))
    => /\ NextChar \in {"{", "[", "\""} => sc'.stack = Append(sc.stack, NextChar)
       /\ NextChar = "/" =>
            IF sc'.last_char \in
                 {"(", ",", "=", ":", "[", "!", "&", "|", "?", "{", "}", ";"}
            THEN sc'.stack = Append(sc.stack, "/")
            ELSE sc'.stack = sc.stack
       /\ NextChar \notin {"{", "[", "\"", "/"} => sc'.stack = sc.stack

\* C10 amended, at every step of the scan: a / is pushed exactly after one
\* of the listed characters.
C10_SlashPushedAfterPreceder == [][C10_SlashStep]_vars

\* a regex context just pushed after "=", in a text that also held a plain /
C10_Witness ==
    /\ op = "scan"
    /\ pc = "loop"
    /\ html = <<"[", "/", "=", "/">>
    /\ sc.stack = <<"[", "/">>
    /\ sc.last_char = "="

-----------------------------------------------------------------------------
(* Properties of parse_for_object and parse_for_all_objects, checked under *)
(* SpecFind.                                                               *)

Finished == pc \in {"returned", "raised"}

\* the pattern occurs nowhere in text
NoOccurrence(text, pattern) ==
    \A k \in 0..Len(text) :
        k + Len(pattern) > Len(text) \/ SubSeq(text, k + 1, k + Len(pattern)) # pattern

\* the values of the occurrences, from offset from on, whose scan and parse
\* succeed, in the order of their matches
RECURSIVE SucceedingValues(_, _, _)
SucceedingValues(text, pattern, from) ==
    IF MatchEnd(text, pattern, from) = -1 THEN <<>>
    ELSE LET e == MatchEnd(text, pattern, from)
             r == parse_for_object_from_startpoint(text, e)
         IN  (IF r.exc = NoExc THEN <<r.value>> ELSE <<>>)
                 \o SucceedingValues(text, pattern, e)

\* C1: in find_all an occurrence whose scan or parse fails (also one whose
\* match ends the text) is discarded without aborting the call, and the list
\* returned is exactly the values of the succeeding occurrences in order.
C1_FailedOccurrencesDiscarded ==
    (op = "find_all" /\ Finished)
    => /\ exc \in {NoExc, NoMatches}
       /\ pc = "returned" => ret = SucceedingValues(input, preceding_regex, 0)
       /\ pc = "raised" => SucceedingValues(input, preceding_regex, 0) = <<>>

\* C2: find_all fails with NoValidObjects if and only if no occurrence
\* yielded a value, and a list it returns is never empty.
C2_NoValidObjectsIffNoValue ==
    (op = "find_all" /\ Finished)
    => /\ (pc = "raised" /\ exc = NoMatches)
            <=> (SucceedingValues(input, preceding_regex, 0) = <<>>)
       /\ pc = "returned" => Len(ret) > 0

\* C3: find_one fails with NoAnchorMatch and returns no value whenever the
\* anchor pattern occurs nowhere in the text.
C3_NoAnchorMatch ==
    (op = "find_one" /\ pc # "call" /\ NoOccurrence(input, preceding_regex))
    => (pc = "raised" /\ exc = NoMatches /\ ret = <<>>)

\* the text holds a literal, but the anchor is nowhere in it
C3_Witness ==
    /\ op = "find_one"
    /\ pc = "raised"
    /\ exc = NoMatches
    /\ input = <<"[", "1", "]", "M">>
    /\ preceding_regex = <<"M", "M">>

\* C4: find_one is decided by the first anchor match alone: it returns the
\* value scanned and parsed at that match's end, and a failure there reaches
\* the caller as a library parse error, later occurrences never being tried.
C4_FirstMatchDecides ==
    (op = "find_one" /\ Finished /\ ~NoOccurrence(input, preceding_regex))
    => LET r == parse_for_object_from_startpoint(
                    input, MatchEnd(input, preceding_regex, 0))
       IN  /\ r.exc = NoExc => (pc = "returned" /\ ret = r.value)
           /\ r.exc # NoExc => (pc = "raised" /\ exc = r.exc)
           /\ pc = "raised" => exc \in {InvalidStart, CouldNotParse}


-----------------------------------------------------------------------------
(* Properties of the array segmenter (SpecSegment) *)

\* the well-formed arrays [e1,...,en], n >= 1, each with its elements
WellFormedArrays ==
    {<<ArrayLiteral(es), es>> : es \in Seqs(Elements, MaxElems) \ {<<>>}}

\* C11: for every array literal [e1,...,en] whose elements are comma-free
\* primitives or function literals function(params){body} with a balanced
\* body, segment returns exactly the n element strings in source order; a
\* comma inside a parameter list or a body never creates a split.
C11_ElementsInSourceOrder ==
    (op = "segment" /\ Finished)
    => \A a \in WellFormedArrays :
          input = a[1] => (pc = "returned" /\ exc = NoExc /\ ret = a[2])

\* [e,function(e,e){{,}},1] is split into its three elements
C11_Witness ==
    /\ op = "segment"
    /\ pc = "returned"
    /\ input = ArrayLiteral(<<<<"e">>,
                  FunctionToken \o <<"(", "e", ",", "e", ")", "{", "{", ",", "}", "}">>,
                  <<"1">>>>)
    /\ Len(ret) = 3
    /\ ret[2] = FunctionToken \o <<"(", "e", ",", "e", ")", "{", "{", ",", "}", "}">>


\* sub begins with the token function, immediately followed by a
\* parenthesized parameter list and then {
WellFormedFunctionHead(sub) ==
    /\ StartsWithFunction(sub)
    /\ Len(sub) > Len(FunctionToken)
    /\ sub[Len(FunctionToken) + 1] = "("
    /\ \E j \in (Len(FunctionToken) + 2)..(Len(sub) - 1) :
          /\ sub[j] = ")"
          /\ \A x \in (Len(FunctionToken) + 2)..(j - 1) : sub[x] # ")"
          /\ sub[j + 1] = "{"

\* C12: InvalidStart is the only failure kind of segment; in particular an
\* input whose first element begins with the token function without a
\* parenthesized parameter list and a { right after it fails with
\* InvalidStart, not with another error and not with a merged element.
C12_OnlyInvalidStart ==
    (op = "segment" /\ Finished)
    => /\ pc = "raised" => exc = InvalidStart
       /\ (/\ StartsWithFunction(SliceFrom(input, 1))
           /\ ~WellFormedFunctionHead(SliceFrom(input, 1)))
          => (pc = "raised" /\ exc = InvalidStart)


-----------------------------------------------------------------------------
(* Properties of the two-stage parser (SpecParse) *)

\* the text with its single quotes made double and the bare names that
\* stand as object keys quoted
RECURSIVE AsJson(_, _)
AsJson(s, p) ==
    IF p > Len(s) THEN <<>>
    ELSE IF s[p] = "'" THEN <<"\"">> \o AsJson(s, p + 1)
    ELSE IF /\ s[p] \in NameStart
            /\ p > 1
            /\ s[p - 1] \in {"{", ","}
            /\ NameEnd(s, p) <= Len(s)
            /\ s[NameEnd(s, p)] = ":"
    THEN <<"\"">> \o SubSeq(s, p, NameEnd(s, p) - 1) \o <<"\"">> \o AsJson(s, NameEnd(s, p))
    ELSE <<s[p]>> \o AsJson(s, p + 1)

\* the span differs from a JSON text only by unquoted identifier keys or
\* single-quoted strings
JsonButForQuoting(s) == ~JsonAccepts(s) /\ JsonAccepts(AsJson(s, 1))

\* C13: parse is two-staged: a span strict JSON accepts yields the JSON
\* value; a span that differs from JSON only by unquoted identifier keys or
\* single-quoted strings is accepted by the fallback; and parse fails with
\* ParseFailure exactly when both stages reject the span.
C13_TwoStages ==
    (op = "parse" /\ Finished /\ parse_obj # <<>>)
    => /\ JsonAccepts(parse_obj) => (pc = "returned" /\ ret = ValueOf(parse_obj))
       /\ JsonButForQuoting(parse_obj) => pc = "returned"
       /\ (pc = "raised" /\ exc = CouldNotParse)
             <=> (~JsonAccepts(parse_obj) /\ ~LiteralEvalAccepts(parse_obj))


-----------------------------------------------------------------------------
(* Termination of the array segmenter (FairSpecSegment) *)

\* an iteration of the loop of lines 158-180 ends: by the comma branch, or
\* by the function branch once its scan has returned
SegmentIterationEnds ==
    /\ op = "segment"
    /\ pc \in {"seg_loop", "seg_scan"}
    /\ pc' = "seg_loop"
    /\ results' # results

\* an iteration of the scan loop called from the function branch
SegmentScanIteration == op = "segment" /\ pc = "seg_scan" /\ pc' = "seg_scan"

\* C14: segment, with the scan calls it makes, terminates on every input
\* with a result or a failure: every loop iteration strictly shortens the
\* remainder, in the function branch and in the comma branch, and every
\* scan iteration strictly advances its index.
C14_SegmentTerminates ==
    /\ [][/\ SegmentIterationEnds => Len(curr_substring') < Len(curr_substring)
          /\ SegmentScanIteration => sc'.i > sc.i]_vars
    /\ <>Finished

\* a call that went through both branches and several scan iterations
C14_Witness ==
    /\ op = "segment"
    /\ pc = "seg_loop"
    /\ curr_substring = <<>>
    /\ Len(results) = 2
    /\ StartsWithFunction(results[1])
    /\ results[2] = <<"1">>
    /\ sc.i > 2


-----------------------------------------------------------------------------
(* Properties of the channel's video list (SpecChannel) *)

\* the ids of the video items of an item list, in list order, each once
RECURSIVE DistinctVideoIds(_)
DistinctVideoIds(items) ==
    IF items = <<>> THEN <<>>
    ELSE LET front == DistinctVideoIds(SubSeq(items, 1, Len(items) - 1))
             last == items[Len(items)]
         IN  IF last.kind = "video" /\ \A i \in 1..Len(front) : front[i] # last.id
             THEN Append(front, last.id)
             ELSE front

\* the watch URLs of the distinct video items of the pages, page by page
RECURSIVE UrlsOfPages(_)
UrlsOfPages(served) ==
    IF served = <<>> THEN <<>>
    ELSE LET ids == DistinctVideoIds(served[1].items)
         IN  [i \in 1..Len(ids) |-> WatchUrl(ids[i])] \o UrlsOfPages(Tail(served))

\* C15: video_urls / url_generator is complete: for every sequence of
\* fetched pages, whether or not a page's item list ends with a
\* continuation item, a watch URL is yielded for each distinct video item of
\* each page, in page order; no video item is omitted.
C15_EveryVideoYielded ==
    (op = "channel" /\ pc = "returned") => urls = UrlsOfPages(server)


-----------------------------------------------------------------------------
(* The remainder of the array segmenter (SpecSegment) *)

\* the function branch has just emitted an element
FunctionElementEmitted == op = "segment" /\ pc = "seg_scan" /\ pc' = "seg_loop"

\* what follows, in the remainder, the element just emitted
AfterElement == SubSeq(curr_substring, Len(results'[Len(results')]) + 1, Len(curr_substring))

\* C16: after a function-literal element the remainder goes past the
\* element, and past the following character only if that is the comma; a
\* following character that is not a comma stays in the remainder.
C16_OnlyCommaSkipped ==
    [][FunctionElementEmitted
         => curr_substring' =
               IF AfterElement # <<>> /\ AfterElement[1] = ","
               THEN Tail(AfterElement) ELSE AfterElement]_vars

\* C16 amended: after a function-literal element the remainder goes past the
\* element and past the one character that follows it, whatever that
\* character is (the comma, the closing ] or any other); nothing more is
\* dropped.
C16_OneCharacterSkipped ==
    [][FunctionElementEmitted
         => curr_substring' =
               IF AfterElement = <<>> THEN <<>> ELSE Tail(AfterElement)]_vars

\* [function(){}1: the 1 after the element is gone from the remainder
C16_Witness ==
    /\ op = "segment"
    /\ pc = "seg_loop"
    /\ input = <<"[">> \o FunctionToken \o <<"(", ")", "{", "}", "1">>
    /\ results = <<FunctionToken \o <<"(", ")", "{", "}">>>>
    /\ curr_substring = <<>>


\* the comma branch takes the last element: the remainder holds no comma
LastElementTaken ==
    /\ op = "segment"
    /\ pc = "seg_loop"
    /\ pc' = "seg_loop"
    /\ results' # results
    /\ \A j \in 1..Len(curr_substring) : curr_substring[j] # ","

\* the remainder without its last character
AllButLastCharacter(sub) == SubSeq(sub, 1, Len(sub) - 1)

\* C17: in the non-function branch, when the remainder holds no comma the
\* remainder is the final element and the loop ends: the element is the
\* remainder with at most the closing ] removed, no other character being
\* dropped, also for an input that does not end in ].
C17_OnlyClosingBracketDropped ==
    [][LastElementTaken
         => /\ curr_substring' = <<>>
            /\ \/ results'[Len(results')] = curr_substring
               \/ /\ curr_substring[Len(curr_substring)] = "]"
                  /\ results'[Len(results')] = AllButLastCharacter(curr_substring)]_vars

\* C17 amended: in the non-function branch, when the remainder holds no
\* comma the final element is the remainder without its last character,
\* whichever character that is, and the loop ends.
C17_LastCharacterDropped ==
    [][LastElementTaken
         => /\ curr_substring' = <<>>
            /\ results'[Len(results')] = AllButLastCharacter(curr_substring)]_vars

\* [1,1 gives the elements 1 and the empty text: the last 1 is dropped
C17_Witness ==
    /\ op = "segment"
    /\ pc = "seg_loop"
    /\ input = <<"[", "1", ",", "1">>
    /\ results = <<<<"1">>, <<>>>>
    /\ curr_substring = <<>>


\* the plain split of a text at every comma
RECURSIVE SplitAtCommas(_)
SplitAtCommas(body) ==
    IF \A j \in 1..Len(body) : body[j] # "," THEN <<body>>
    ELSE LET j == CHOOSE x \in 1..Len(body) :
                      body[x] = "," /\ \A y \in (x + 1)..Len(body) : body[y] # ","
         IN  Append(SplitAtCommas(SubSeq(body, 1, j - 1)), SubSeq(body, j + 1, Len(body)))

\* the text between the [ and the ] of the input
Body == SubSeq(input, 2, Len(input) - 1)

\* the input is [ body ] and no element of body begins with function
PlainArray ==
    /\ Len(input) >= 2
    /\ input[1] = "["
    /\ input[Len(input)] = "]"
    /\ \A i \in 1..Len(SplitAtCommas(Body)) : ~StartsWithFunction(SplitAtCommas(Body)[i])

\* C18: for every input [ body ] in which no element begins with the token
\* function, the result is the plain split of body at every comma, whatever
\* the nesting ([] gives one empty element, a nested array or object with a
\* comma is split); joining the result with commas gives body back.
C18_PlainSplit ==
    (op = "segment" /\ Finished /\ PlainArray)
    => /\ pc = "returned"
       /\ ret = SplitAtCommas(Body)
       /\ JoinWithCommas(ret) = Body

\* [{,}] is split inside the braces
C18_Witness ==
    /\ op = "segment"
    /\ pc = "returned"
    /\ input = <<"[", "{", ",", "}", "]">>
    /\ ret = <<<<"{">>, <<"}">>>>


-----------------------------------------------------------------------------
(* The scanner's last_char and context stack (SpecScan) *)

\* the whitespace characters
AnyWhitespace == {" ", "\n", "\t", "\r"}

\* the nearest of the first i characters of the span that is not whitespace
NearestNonWhitespace(h, i) ==
    h[CHOOSE j \in 1..i :
          h[j] \notin AnyWhitespace /\ \A x \in (j + 1)..i : h[x] \in AnyWhitespace]

\* C19: whenever scan examines a character outside a string or regex
\* context, last_char is the nearest character of the span before it that
\* is not whitespace (space, newline, tab, carriage return): the opener
\* itself when only the opener and whitespace precede the character.
C19_LastCharIsNearestNonWhitespace ==
    [][(AtChar /\ Top(sc.stack) \notin {"\"", "/"})
         => sc'.last_char = NearestNonWhitespace(html, sc.i)]_vars


\* the stack of a scan in progress: the opener at the bottom, brackets and
\* braces above it, and a string or regex context nowhere but on top
WellFormedStack(h, st) ==
    /\ st # <<>> => st[1] = h[1] /\ h[1] \in {"{", "["}
    /\ \A k \in 1..Len(st) : st[k] \in {"{", "[", "\"", "/"}
    /\ \A k \in 1..(Len(st) - 1) : st[k] \in {"{", "["}

\* one examined character changes the stack by a pop, which only the
\* closer of the top context does, by a push of that character on a top
\* that is no string and no regex, or not at all
WellFormedStackStep ==
    AtChar
    => /\ \/ sc'.stack = sc.stack
          \/ /\ sc'.stack = SubSeq(sc.stack, 1, Len(sc.stack) - 1)
             /\ NextChar = CloserOf(Top(sc.stack))
          \/ /\ sc'.stack = Append(sc.stack, NextChar)
             /\ Top(sc.stack) \notin {"\"", "/"}
       /\ (NextChar \in {"}", "]", "\"", "/"} /\ NextChar # CloserOf(Top(sc.stack)))
             => Len(sc'.stack) >= Len(sc.stack)
       /\ (NextChar \in {"}", "]"} /\ NextChar # CloserOf(Top(sc.stack)))
             => sc'.stack = sc.stack
       /\ Len(sc'.stack) - Len(sc.stack) \in {-1, 0, 1}

\* C20: in every reachable state of scan the context stack is well-formed:
\* its bottom is the opener at start until the final pop, a string or regex
\* context is only ever the top element, the stack is popped only by the
\* closer of its top context (the closer of another context does not pop),
\* and the depth changes by at most one per examined character.
C20_StackWellFormed ==
    /\ [](op = "scan" => WellFormedStack(html, sc.stack))
    /\ [][WellFormedStackStep]_vars

\* a ] examined inside a string that lies in an array in an object: it is
\* not the closer of the top context and the stack stays as it is
C20_Witness ==
    /\ op = "scan"
    /\ pc = "loop"
    /\ sc.stack = <<"{", "[", "\"">>
    /\ sc.curr_char = "]"
    /\ sc.i = 4


-----------------------------------------------------------------------------
(* The continuation protocol of Channel._paginate (SpecChannel) *)

\* the page yields a continuation token: it has one of the two layouts,
\* its items but the last are video items, and its last item is a
\* continuation item with a token
HasToken(page) ==
    /\ page.layout \in {"tabs", "continuationItems"}
    /\ page.items # <<>>
    /\ \A i \in 1..(Len(page.items) - 1) : page.items[i].kind = "video"
    /\ page.items[Len(page.items)].kind = "continuation"
    /\ page.items[Len(page.items)].token \notin {None, ""}

PageToken(page) == page.items[Len(page.items)].token

\* the page fetched last
LastPage == server[Len(server)]

\* what holds between the pages fetched, the id lists yielded and the
\* requests issued, once the first page is in
ProtocolState ==
    (op = "channel" /\ pc # "call")
    => /\ Len(pages) = Len(server)
       /\ \A i \in 1..Len(server) :
             /\ pages[i] = _extract_videos(server[i])[1]
             /\ server[i] = NoLayout => pages[i] = <<>>
       /\ Len(requests) = Len(server) - 1
       /\ \A i \in 1..Len(requests) :
             HasToken(server[i]) /\ requests[i] = PageToken(server[i])
       /\ pc = "returned" => ~HasToken(LastPage)

\* a request goes out with the token of the page fetched last and brings
\* one page and one id list; after a page without token nothing goes out
ProtocolStep ==
    (op = "channel" /\ pc # "call")
    => /\ requests' # requests
            => /\ HasToken(LastPage)
               /\ requests' = Append(requests, PageToken(LastPage))
               /\ Len(server') = Len(server) + 1
               /\ pages' = Append(pages, _extract_videos(server'[Len(server')])[1])
       /\ ~HasToken(LastPage)
            => requests' = requests /\ server' = server /\ pages' = pages

\* C21: _paginate follows the continuation protocol: it yields exactly one
\* id list per page in fetch order, the initial page first; it requests a
\* further page only when the page before yielded a continuation token,
\* with exactly that token; and after the first page that yields no token
\* (a page of neither layout yields an empty id list and no token) it stops
\* without a further request.
C21_ContinuationProtocol == []ProtocolState /\ [][ProtocolStep]_vars

\* two requests, with the tokens t and then u, ended by a page of neither
\* layout
C21_Witness ==
    /\ op = "channel"
    /\ pc = "returned"
    /\ requests = <<"t", "u">>
    /\ Len(server) = 3
    /\ server[3] = NoLayout
    /\ pages[3] = <<>>
    /\ pages[1] = <<"a">>

=============================================================================
